---- MODULE Spec2Model ----
(***************************************************************************)
(* A model of wwwclient/browse.py: Pairs, Request, Transaction and the     *)
(* Session orchestrator (URL normalisation, host/protocol pinning, referer  *)
(* chaining, cookie jar, redirect following, history eviction).            *)
(*                                                                         *)
(* Strings are sequences of tokens.  A token is a run of characters that   *)
(* the program never looks inside: "http", "s", ":", "/", "?", "#", ";",   *)
(* and the names of hosts and path segments.  The run "http" is always its *)
(* own token, so that startswith("http") is a test of the first token.     *)
(* The Python value None is the one-token sequence None, which no string   *)
(* of the model equals.                                                    *)
(***************************************************************************)
EXTENDS Integers, Sequences, FiniteSets, TLC

VARIABLES
    host,          \* Session._host
    protocol,      \* Session._protocol
    transactions,  \* Session._transactions : the history
    cookies,       \* Session._cookies : the session jar (a Pairs list)
    curl,          \* Session._httpClient : the transport's response state
    pc,            \* where the running get/post call stands
    call,          \* the running (or last) call: its arguments and outcome
    nCreated,      \* number of Transaction objects constructed so far
    maxTransactions, \* Session._maxTransactions
    req,           \* a Request its owner builds and changes directly
    reply          \* what the last call on req returned or raised

vars == <<host, protocol, transactions, cookies, curl, pc, call, nCreated,
          maxTransactions, req, reply>>

-----------------------------------------------------------------------------
(* Bounds of the model *)

\* Transactions one behaviour may create under Spec
MaxCreated == 2

\* Transactions one behaviour may create under SpecBrowse
MaxBrowse == 2

\* Transactions one behaviour may create under SpecChain
MaxChain == 3

\* Transactions one behaviour may create under SpecHistory
MaxHistCreated == 13

\* Attachments one Request may hold under SpecRequest
MaxAttach == 2

\* Length up to which a Pairs is added to under SpecPairs
MaxPairs == 3

-----------------------------------------------------------------------------
(* Module constants, browse.py:19-26 and 306 *)

None == <<"<None>">>

HTTP == <<"http">>

HTTPS == <<"http", "s">>

GET == "GET"

POST == "POST"

HEAD == "HEAD"

METHODS == {GET, POST, HEAD}

MAX_TRANSACTIONS == 10

\* self._maxTransactions as the owner of a session sets it to have the
\* eviction of line 417 happen within a few transactions
SmallMax == 1

\* str(x) and "%s" % x : None prints as the four letters
Str(x) == IF x = None THEN <<"None">> ELSE x

\* Python truth of a string-or-None value
Truthy(x) == x # None /\ x # <<>>

RECURSIVE Render(_)
\* The characters of a token sequence, as one string
Render(s) == IF s = <<>> THEN "" ELSE Head(s) \o Render(Tail(s))

\* Index of the first position >= from holding tok, 0 when there is none
\* (str.find gives -1; positions here count from 1)
Find(s, tok, from) ==
    IF \E i \in from..Len(s) : s[i] = tok
    THEN CHOOSE i \in from..Len(s) :
            s[i] = tok /\ \A j \in from..(i - 1) : s[j] # tok
    ELSE 0

\* Index of the last position holding tok, 0 when there is none (str.rfind)
RFind(s, tok) ==
    IF \E i \in 1..Len(s) : s[i] = tok
    THEN CHOOSE i \in 1..Len(s) :
            s[i] = tok /\ \A j \in (i + 1)..Len(s) : s[j] # tok
    ELSE 0

\* s[:i-1] and s[i+1:] around position i
Before(s, i) == SubSeq(s, 1, i - 1)

After(s, i) == SubSeq(s, i + 1, Len(s))

StartsWith(s, tok) == Len(s) > 0 /\ s[1] = tok

-----------------------------------------------------------------------------
(* Pairs, browse.py:37-100.  A Pairs is its list self.pairs of <<name, value>>;
   names are tokens, values are token sequences. *)

\* name.lower().strip() over the names the model uses
LowerStrip(name) ==
    CASE name = "Referer" -> "referer"
      [] name = "Cookie" -> "cookie"
      [] name = " cookie " -> "cookie"
      [] name = "SID" -> "sid"
      [] OTHER -> name

\* Pairs.add without the test of line 64: the pair is appended always
PairsAdd_Always(pairs, name, value) == Append(pairs, <<name, value>>)

PairsAdd(pairs, name, value) ==
    IF \E i \in 1..Len(pairs) : pairs[i] = <<name, value>>
    THEN pairs
    ELSE Append(pairs, <<name, value>>)

PairsClear(pairs, name) == SelectSeq(pairs, LAMBDA x : x[1] # name)

PairsSet(pairs, name, value) == PairsAdd(PairsClear(pairs, name), name, value)

PairsGet(pairs, name) ==
    IF \E i \in 1..Len(pairs) : LowerStrip(pairs[i][1]) = LowerStrip(name)
    THEN pairs[CHOOSE i \in 1..Len(pairs) :
                 /\ LowerStrip(pairs[i][1]) = LowerStrip(name)
                 /\ \A j \in 1..(i - 1) :
                        LowerStrip(pairs[j][1]) # LowerStrip(name)][2]
    ELSE None

RECURSIVE PairsMerge(_, _)
\* merge of a list of pairs (or of another Pairs' list); merge(None) is
\* merge of the empty list
PairsMerge(pairs, parameters) ==
    IF parameters = <<>> THEN pairs
    ELSE PairsMerge(PairsAdd(pairs, parameters[1][1], parameters[1][2]),
                    Tail(parameters))

\* urllib.quote_plus over the tokens the model uses: a space becomes "+"
QuotePlusTok(tok) == IF tok = "a b" THEN "a+b" ELSE tok

QuotePlus(s) == [i \in 1..Len(s) |-> QuotePlusTok(s[i])]

RECURSIVE AsURL(_)
\* urllib.urlencode(self.pairs) : k=v joined by "&"
AsURL(pairs) ==
    IF pairs = <<>> THEN <<>>
    ELSE <<QuotePlusTok(pairs[1][1]), "=">> \o QuotePlus(pairs[1][2])
         \o (IF Len(pairs) > 1 THEN <<"&">> \o AsURL(Tail(pairs)) ELSE <<>>)

\* list of "%s: %s" % (k, v)
AsHeaders(pairs) ==
    [i \in 1..Len(pairs) |-> <<pairs[i][1], ": ">> \o Str(pairs[i][2])]

RECURSIVE AsCookies(_)
\* "; ".join("%s=%s" % (k, v))
AsCookies(pairs) ==
    IF pairs = <<>> THEN <<>>
    ELSE <<pairs[1][1], "=">> \o Str(pairs[1][2])
         \o (IF Len(pairs) > 1 THEN <<"; ">> \o AsCookies(Tail(pairs)) ELSE <<>>)

-----------------------------------------------------------------------------
(* Request, browse.py:108-186 *)

\* Request.__init__ for a supported method
NewRequest(method, url, params, data) ==
    [method |-> method, url |-> url, params |-> PairsMerge(<<>>, params),
     cookies |-> <<>>, headers |-> <<>>, data |-> data, attachments |-> <<>>]

\* Request.url appending the parameters for GET, and for POST without body
\* and attachments, only
RequestUrl_GetOrPost(r) ==
    IF r.params # <<>>
       /\ (\/ r.method = GET
           \/ r.method = POST /\ r.data = None /\ r.attachments = <<>>)
    THEN r.url \o <<"?">> \o AsURL(r.params)
    ELSE r.url

RequestUrl(r) ==
    IF r.params # <<>>
    THEN IF (r.method = POST /\ r.data # None) \/ r.attachments # <<>>
         THEN r.url
         ELSE r.url \o <<"?">> \o AsURL(r.params)
    ELSE r.url

\* Request.header(name, value), the setter
RequestSetHeader(r, name, value) ==
    [r EXCEPT !.headers = PairsSet(r.headers, name, Str(value))]

\* Request.header(name), the getter
RequestGetHeader(r, name) == PairsGet(r.headers, name)

\* lines 156-160: the Cookie header of a request that has cookies, given
\* the Cookie header it already holds
SetCookieHeader(headers, cookie_header, own) ==
    IF Truthy(cookie_header)
    THEN PairsSet(headers, "Cookie",
                  cookie_header \o <<"; ">> \o AsCookies(own))
    ELSE PairsSet(headers, "Cookie", AsCookies(own))

\* lines 155-161 on the copy of the explicit headers
WithCookies(headers, own) ==
    IF own # <<>>
    THEN SetCookieHeader(headers, PairsGet(headers, "Cookie"), own)
    ELSE headers

\* Request.headers() : the explicit headers plus the synthesised Cookie header
RequestHeaders(r) == WithCookies(PairsMerge(<<>>, r.headers), r.cookies)

\* method.upper() over the method names the model uses
Upper(tok) ==
    CASE tok = "get" -> "GET"
      [] tok = "post" -> "POST"
      [] OTHER -> tok

\* curl.FILE_ATTACHMENT and curl.CONTENT_ATTACHMENT, two distinct markers
FILE_ATTACHMENT == "FILE_ATTACHMENT"

CONTENT_ATTACHMENT == "CONTENT_ATTACHMENT"

\* Request.data(data), the setter: err names the exception raised, "" when
\* the call returns, and req is the request the call leaves behind
RequestData(r, data) ==
    IF r.attachments # <<>>
    THEN [err |-> "AssertionError", req |-> r]
    ELSE [err |-> "", req |-> [r EXCEPT !.method = POST, !.data = data]]

\* Request.data(), the getter
RequestDataGet(r) ==
    IF r.attachments # <<>>
    THEN [err |-> "AssertionError", value |-> None]
    ELSE [err |-> "", value |-> r.data]

\* Request.attach(name, file, content)
RequestAttach(r, name, file, content) ==
    IF r.data # None
    THEN [err |-> "AssertionError", req |-> r]
    ELSE IF file # None
    THEN [err |-> "",
          req |-> [r EXCEPT !.method = POST,
                            !.attachments =
                                Append(@, <<name, file, FILE_ATTACHMENT>>)]]
    ELSE IF content # None
    THEN [err |-> "",
          req |-> [r EXCEPT !.method = POST,
                            !.attachments =
                                Append(@, <<name, file, CONTENT_ATTACHMENT>>)]]
    ELSE [err |-> "Exception", req |-> [r EXCEPT !.method = POST]]

\* Request.attachments()
RequestAttachments(r) == r.attachments

-----------------------------------------------------------------------------
(* urlparse.urlparse, as Session.__processURL calls it at browse.py:394 *)

\* string.lower over the tokens the model uses
Lower(tok) == IF tok = "HTTP" THEN "http" ELSE tok

\* the characters a scheme may hold: letters, digits, "+", "-", "."
IsSchemeTok(tok) ==
    tok \notin {":", "/", "?", "#", ";", "=", "&", "; ", ": ", "a b", ""}

\* uses_netloc, uses_query, uses_fragment, uses_params all hold "", http, https
UsesAll == {<<>>, HTTP, HTTPS}

\* the two sides of position i of url, the whole url when i is 0
CutAt(url, i) ==
    IF i > 0 THEN <<Before(url, i), After(url, i)>> ELSE <<url, <<>>>>

\* url.split(tok, 1) when tok occurs in url
SplitAt(url, tok) == CutAt(url, Find(url, tok, 1))

\* urlsplit: the scheme ends at the first ":" at position i, when only
\* scheme characters stand before it
SchemeAt(url, i) ==
    IF i > 1 /\ \A j \in 1..(i - 1) : IsSchemeTok(url[j])
    THEN [scheme |-> [j \in 1..(i - 1) |-> Lower(url[j])],
          rest |-> After(url, i)]
    ELSE [scheme |-> <<>>, rest |-> url]

SplitScheme(url) == SchemeAt(url, Find(url, ":", 1))

\* the least position of stops, Len(rest) + 1 when there is none
NetlocEnd(rest, stops) ==
    IF stops = {} THEN Len(rest) + 1
    ELSE CHOOSE i \in stops : \A j \in stops : i <= j

NetlocTo(rest, delim) ==
    [netloc |-> SubSeq(rest, 3, delim - 1),
     rest |-> SubSeq(rest, delim, Len(rest))]

\* _splitnetloc(url, 2): after "//" the netloc runs to the first of "/", "?",
\* "#"
SplitNetloc(rest) ==
    IF Len(rest) >= 2 /\ rest[1] = "/" /\ rest[2] = "/"
    THEN NetlocTo(rest, NetlocEnd(rest,
             {i \in 3..Len(rest) : rest[i] \in {"/", "?", "#"}}))
    ELSE [netloc |-> <<>>, rest |-> rest]

\* _splitparams: the first ";" after the last "/" (at position slash)
ParamsAt(url, slash) ==
    IF slash > 0 THEN Find(url, ";", slash) ELSE Find(url, ";", 1)

SplitParams(url) == CutAt(url, ParamsAt(url, RFind(url, "/")))

\* urlparse, once the scheme s.scheme is split off: netloc, fragment, query
\* and parameters in that order, each only for a scheme that uses it
ParseParams(scheme, netloc, query, fragment, rest) ==
    [protocol |-> scheme, host |-> netloc,
     path |-> IF scheme \in UsesAll THEN SplitParams(rest)[1] ELSE rest,
     parameters |-> IF scheme \in UsesAll THEN SplitParams(rest)[2] ELSE <<>>,
     query |-> query, fragment |-> fragment]

ParseQuery(scheme, netloc, fragment, rest) ==
    IF scheme \in UsesAll
    THEN ParseParams(scheme, netloc, SplitAt(rest, "?")[2], fragment,
                     SplitAt(rest, "?")[1])
    ELSE ParseParams(scheme, netloc, <<>>, fragment, rest)

ParseFragment(scheme, netloc, rest) ==
    IF scheme \in UsesAll
    THEN ParseQuery(scheme, netloc, SplitAt(rest, "#")[2],
                    SplitAt(rest, "#")[1])
    ELSE ParseQuery(scheme, netloc, <<>>, rest)

ParseNetloc(scheme, n) == ParseFragment(scheme, n.netloc, n.rest)

ParseRest(s) ==
    ParseNetloc(s.scheme,
                IF s.scheme \in UsesAll THEN SplitNetloc(s.rest)
                ELSE [netloc |-> <<>>, rest |-> s.rest])

\* urlparse(url); the scheme is split off once
UrlParse(url) == CHOOSE r \in {ParseRest(s) : s \in {SplitScheme(url)}} : TRUE

-----------------------------------------------------------------------------
(* Transaction, browse.py:194-279 *)

NewTransaction(id, request) ==
    [id |-> id, request |-> request, cookies |-> <<>>, done |-> FALSE]

TransactionUrl(t) == RequestUrl(t.request)

\* Transaction.do up to the transport call: the session jar and the
\* transaction's own cookies are merged into the request's cookies
TransactionPrepare(t, jar) ==
    [t EXCEPT !.request.cookies =
        PairsMerge(PairsMerge(t.request.cookies, jar), t.cookies)]

\* what Transaction.do hands to curl.GET / curl.POST
Wire(r) ==
    IF r.method = GET
    THEN [verb |-> GET, url |-> RequestUrl(r), data |-> None,
          attach |-> <<>>, headers |-> AsHeaders(RequestHeaders(r))]
    ELSE [verb |-> POST, url |-> RequestUrl(r), data |-> r.data,
          attach |-> r.attachments, headers |-> AsHeaders(RequestHeaders(r))]

-----------------------------------------------------------------------------
(* Session, browse.py:288-419 *)

Last(txs) == txs[Len(txs)]

\* referer() giving the URL the last request was built with, without its
\* query parameters
Referer_BaseUrl(txs) == IF txs = <<>> THEN None ELSE Last(txs).request.url

\* Session.referer
Referer(txs) == IF txs = <<>> THEN None ELSE TransactionUrl(Last(txs))

\* lines 400-407: the URL recomposed from the pinned protocol and host
Recompose(parsed, h2, p2) ==
    Str(p2) \o <<":", "/", "/">> \o Str(h2)
    \o (IF parsed.path # <<>> /\ parsed.path[1] = "/" THEN parsed.path
        ELSE IF parsed.path # <<>> THEN <<"/">> \o parsed.path
        ELSE <<"/">>)
    \o (IF parsed.parameters # <<>>
        THEN <<";">> \o parsed.parameters ELSE <<>>)
    \o (IF parsed.query # <<>> THEN <<"?">> \o parsed.query ELSE <<>>)
    \o (IF parsed.fragment # <<>> THEN <<"#">> \o parsed.fragment ELSE <<>>)

\* lines 399-407, with the host and protocol lines 395-397 left pinned
Processed(parsed, h2, p2) ==
    IF StartsWith(parsed.path, "ppg.h")
    THEN [err |-> "AssertionError", url |-> None,
          host |-> h2, protocol |-> p2]
    ELSE [err |-> "", url |-> Recompose(parsed, h2, p2),
          host |-> h2, protocol |-> p2]

\* lines 395-397 keeping the first host and protocol pinned
Pin_FirstWins(parsed, h, p) ==
    Processed(parsed,
              IF h = None /\ parsed.host # <<>> THEN parsed.host ELSE h,
              IF p = None /\ parsed.protocol \in {HTTP, HTTPS}
              THEN parsed.protocol ELSE p)

\* lines 395-397: the parsed scheme and host become the pinned ones
Pin(parsed, h, p) ==
    Processed(parsed,
              IF parsed.host # <<>> THEN parsed.host ELSE h,
              IF parsed.protocol = HTTP THEN HTTP
              ELSE IF parsed.protocol = HTTPS THEN HTTPS ELSE p)

\* lines 391-392 putting the http:// prefix in front of every URL that does
\* not start with http
Prefixed_Always(url, h) ==
    IF ~StartsWith(url, "http")
    THEN <<"http", ":", "/", "/">> \o url ELSE url

\* lines 391-392: while no host is pinned a URL that does not start with
\* http gets the http:// prefix
Prefixed(url, h) ==
    IF h = None /\ ~StartsWith(url, "http")
    THEN <<"http", ":", "/", "/">> \o url ELSE url

\* Session.__processURL(url) with the session at (h, p, txs).  err names the
\* exception raised, "" when the call returns; host and protocol are the
\* pinned values the call leaves behind either way.
ProcessURL(url, h, p, txs) ==
    IF url = None /\ txs # <<>>
    THEN \* self.last().request.url() : request is a bound method, which has
         \* no attribute url
         [err |-> "AttributeError", url |-> None, host |-> h, protocol |-> p]
    ELSE CHOOSE r \in
             {Pin(parsed, h, p) : parsed \in
                 {UrlParse(Prefixed(IF url = None THEN <<"/">> ELSE url, h))}}
             : TRUE

\* Session._createRequest
CreateRequest(method, url, params, data, txs) ==
    LET request == NewRequest(method, url, params, data)
    IN  IF txs # <<>>
        THEN RequestSetHeader(request, "Referer", Referer(txs))
        ELSE request

\* __addTransaction dropping the newest entry instead of the oldest
AddTransaction_DropNewest(txs, t, max) ==
    Append(IF Len(txs) > max THEN SubSeq(txs, 1, Len(txs) - 1) ELSE txs, t)

\* Session.__addTransaction
AddTransaction(txs, t, max) ==
    Append(IF Len(txs) > max THEN Tail(txs) ELSE txs, t)

-----------------------------------------------------------------------------
(* The transport (curl.HTTPClient) and the Form collaborator *)

\* the response state of a client that has made no exchange yet
CurlUnset == [data |-> None, redirect |-> None, newCookies |-> <<>>,
              sent |-> <<>>]

\* the response state after one GET/POST exchange that was handed wire and
\* answered resp
CurlAfter(wire, resp) ==
    [data |-> <<"body of ">> \o wire.url, redirect |-> resp.redirect,
     newCookies |-> resp.newCookies, sent |-> <<wire>>]

\* form.submit(action, **values) : the form's fields, values overriding
FormSubmit(form, action, values) ==
    [i \in 1..Len(form.fields) |->
        IF \E j \in 1..Len(values) : values[j][1] = form.fields[i][1]
        THEN <<form.fields[i][1],
               values[CHOOSE j \in 1..Len(values) :
                        values[j][1] = form.fields[i][1]][2]>>
        ELSE form.fields[i]]

\* Transaction.data, Transaction.redirect, Transaction.newCookies: read from
\* self._curl, the session's one HTTP client, whose state is c
TransactionData(t, c) == c.data

TransactionRedirect(t, c) == c.redirect

TransactionNewCookies(t, c) == PairsMerge(<<>>, c.newCookies)

-----------------------------------------------------------------------------
(* The state machine *)

NoCall == [op |-> "none", method |-> GET, follow |-> FALSE, do |-> FALSE,
           target |-> None, outcome |-> "none", error |-> "", result |-> 0,
           hops |-> 0, appended |-> 0, redirects |-> 0]

\* Session.__init__ with no url, then session._maxTransactions = max
\* no call has been made on req
NoReply ==
    [op |-> "none", err |-> "", name |-> "", value |-> None, content |-> None]

InitSession(max) ==
    /\ host = None
    /\ protocol = None
    /\ transactions = <<>>
    /\ cookies = <<>>
    /\ curl = CurlUnset
    /\ pc = "idle"
    /\ call = NoCall
    /\ nCreated = 0
    /\ maxTransactions = max
    /\ req = NewRequest(GET, <<"/">>, <<>>, None)
    /\ reply = NoReply

Returned(c, id) == [c EXCEPT !.outcome = "returned", !.result = id]

Raised(c, error) == [c EXCEPT !.outcome = "raised", !.error = error]

\* Lines 337-339 (351-355): build the request for the normalised URL pu,
\* wrap it in transaction t, append it to the history; c is the call record
\* to continue with.
Append1(pu, t, c) ==
    /\ host' = pu.host
    /\ protocol' = pu.protocol
    /\ IF pu.err # ""
       THEN /\ UNCHANGED <<transactions, nCreated>>
            /\ pc' = "idle"
            /\ call' = Raised(c, pu.err)
       ELSE /\ transactions' = AddTransaction(transactions, t, maxTransactions)
            /\ nCreated' = nCreated + 1
            /\ IF c.do
               THEN pc' = "do" /\ call' = [c EXCEPT !.appended = @ + 1]
               ELSE pc' = "idle"
                    /\ call' = Returned([c EXCEPT !.appended = @ + 1],
                                        nCreated + 1)
    /\ UNCHANGED <<cookies, curl, maxTransactions, req, reply>>

\* The head of Session.get / Session.post, lines 336-339 and 350-355:
\* normalise the URL, build the request, wrap it, append it to the history
Issue(method, url, params, data, c) ==
    \E pu \in {ProcessURL(url, host, protocol, transactions)} :
    \E t \in {NewTransaction(nCreated + 1,
                  CreateRequest(method, pu.url, params, data, transactions))} :
    \E c1 \in {c} :
        Append1(pu, t, c1)

NewCall(op, method, url, follow, do) ==
    [op |-> op, method |-> method, follow |-> follow, do |-> do,
     target |-> url, outcome |-> "running", error |-> "", result |-> 0,
     hops |-> 0, appended |-> 0, redirects |-> 0]

\* Session.get(url, params, follow, do), up to transaction.do()
Get(url, params, follow, do) ==
    /\ pc = "idle"
    /\ Issue(GET, url, params, None, NewCall("get", GET, url, follow, do))

\* Session.post(url, params, data, follow, do), up to transaction.do()
Post(url, params, data, follow, do) ==
    /\ pc = "idle"
    /\ Issue(POST, url, params, data, NewCall("post", POST, url, follow, do))

\* submit handing the field set to post as query parameters, not as body
SubmitTo_AsParams(url, url_parameters, method, do) ==
    IF method = POST
    THEN Issue(POST, url, url_parameters, None,
               NewCall("submit", POST, url, TRUE, do))
    ELSE IF method = GET
    THEN Issue(GET, url, url_parameters, None,
               NewCall("submit", GET, url, TRUE, do))
    ELSE /\ pc' = "idle"
         /\ call' = Raised(NewCall("submit", method, url, TRUE, do),
                           "SessionException")
         /\ UNCHANGED <<host, protocol, transactions, cookies, curl,
                        nCreated, maxTransactions, req, reply>>

\* lines 375-380 for the url and field set of lines 373-374
SubmitTo(url, url_parameters, method, do) ==
    IF method = POST
    THEN Issue(POST, url, <<>>, AsURL(url_parameters),
               NewCall("submit", POST, url, TRUE, do))
    ELSE IF method = GET
    THEN Issue(GET, url, url_parameters, None,
               NewCall("submit", GET, url, TRUE, do))
    ELSE /\ pc' = "idle"
         /\ call' = Raised(NewCall("submit", method, url, TRUE, do),
                           "SessionException")
         /\ UNCHANGED <<host, protocol, transactions, cookies, curl,
                        nCreated, maxTransactions, req, reply>>

\* Session.submit(form, values, action, method, do), up to transaction.do()
Submit(form, values, action, method, do) ==
    /\ pc = "idle"
    /\ SubmitTo(IF Truthy(form.action) THEN form.action
                ELSE Referer(transactions),
                FormSubmit(form, action, values), method, do)

\* the history with its last transaction replaced
WithLast(txs, t) == [txs EXCEPT ![Len(txs)] = t]

\* the call record once one more exchange has been answered
Counted(c, after) ==
    [c EXCEPT !.redirects = @ + (IF Truthy(after.redirect) THEN 1 ELSE 0)]

\* the loop of line 345 giving up after the first hop
Answered_HopLimit(t, after) ==
    /\ transactions' = WithLast(transactions, [t EXCEPT !.done = TRUE])
    /\ curl' = after
    /\ cookies' = PairsMerge(cookies, PairsMerge(<<>>, after.newCookies))
    /\ IF Truthy(after.redirect) /\ call.follow /\ call.hops < 1
       THEN pc' = "hop" /\ call' = Counted(call, after)
       ELSE pc' = "idle" /\ call' = Returned(Counted(call, after), t.id)

\* lines 343-347 once transaction t has been executed and the transport
\* holds the response state after
Answered(t, after) ==
    /\ transactions' = WithLast(transactions, [t EXCEPT !.done = TRUE])
    /\ curl' = after
    /\ cookies' = PairsMerge(cookies, PairsMerge(<<>>, after.newCookies))
    /\ IF Truthy(after.redirect) /\ call.follow
       THEN pc' = "hop" /\ call' = Counted(call, after)
       ELSE pc' = "idle" /\ call' = Returned(Counted(call, after), t.id)

\* transaction.do() whose failure is swallowed: the call returns the
\* transaction it could not execute
Execute_Swallow(t, resp, ok) ==
    /\ IF ok
       THEN Answered(t, CurlAfter(Wire(t.request), resp))
       ELSE /\ transactions' = WithLast(transactions, t)
            /\ pc' = "idle"
            /\ call' = Returned(call, t.id)
            /\ UNCHANGED <<curl, cookies>>
    /\ UNCHANGED <<host, protocol, nCreated, maxTransactions, req, reply>>

\* transaction.do() of line 342 on the prepared transaction t
Execute(t, resp, ok) ==
    /\ IF ok
       THEN Answered(t, CurlAfter(Wire(t.request), resp))
       ELSE /\ transactions' = WithLast(transactions, t)
            /\ pc' = "idle"
            /\ call' = Raised(call, "TransportError")
            /\ UNCHANGED <<curl, cookies>>
    /\ UNCHANGED <<host, protocol, nCreated, maxTransactions, req, reply>>

\* Lines 342-347 (and 357-362) for the transaction just appended or just
\* returned by the recursive get: transaction.do(), the merge of the new
\* cookies into the jar, and the test of the while loop.  The transport
\* answers resp, or fails when ok is FALSE.
Exchange(resp, ok) ==
    /\ pc = "do"
    /\ Execute(TransactionPrepare(Last(transactions), cookies), resp, ok)

\* the redirect followed with the method of the original call
Hop_KeepMethod ==
    /\ pc = "hop"
    /\ Issue(call.method, curl.redirect, <<>>, None,
             [call EXCEPT !.hops = @ + 1, !.target = curl.redirect])

\* Line 346 (361): transaction = self.get(transaction.redirect(), do=True),
\* up to the transaction.do() of the recursive call
Hop ==
    /\ pc = "hop"
    /\ Issue(GET, curl.redirect, <<>>, None,
             [call EXCEPT !.hops = @ + 1, !.target = curl.redirect])

\* Transaction.do without the test of line 249: a done transaction is
\* executed again
DoPrepared_Again(i, t, c, resp, ok) ==
    /\ pc' = "idle"
    /\ IF ok
       THEN /\ transactions' =
                   [transactions EXCEPT ![i] = [t EXCEPT !.done = TRUE]]
            /\ curl' = CurlAfter(Wire(t.request), resp)
            /\ call' = Returned(c, t.id)
       ELSE /\ transactions' = [transactions EXCEPT ![i] = t]
            /\ call' = Raised(c, "TransportError")
            /\ UNCHANGED curl
    /\ UNCHANGED <<host, protocol, cookies, nCreated, maxTransactions,
                   req, reply>>

\* Transaction.do on the i-th transaction of the history, prepared as t
DoPrepared(i, t, c, resp, ok) ==
    /\ pc' = "idle"
    /\ IF transactions[i].done
       THEN /\ call' = Returned(c, 0)
            /\ UNCHANGED <<transactions, curl>>
       ELSE IF ok
       THEN /\ transactions' =
                   [transactions EXCEPT ![i] = [t EXCEPT !.done = TRUE]]
            /\ curl' = CurlAfter(Wire(t.request), resp)
            /\ call' = Returned(c, t.id)
       ELSE /\ transactions' = [transactions EXCEPT ![i] = t]
            /\ call' = Raised(c, "TransportError")
            /\ UNCHANGED curl
    /\ UNCHANGED <<host, protocol, cookies, nCreated, maxTransactions,
                   req, reply>>

\* transaction.do() called by the holder of the i-th transaction of the
\* history, outside get/post (a transaction made with do=False)
Do(i, resp, ok) ==
    /\ pc = "idle"
    /\ i \in 1..Len(transactions)
    /\ DoPrepared(i, TransactionPrepare(transactions[i], cookies),
                  NewCall("do", transactions[i].request.method,
                          transactions[i].request.url, FALSE, TRUE),
                  resp, ok)

-----------------------------------------------------------------------------
(* Calls made directly on a Request and on the Pairs it hands out *)

\* the variables of the session, which no call on req touches
sessionVars ==
    <<host, protocol, transactions, cookies, curl, pc, call, nCreated,
      maxTransactions>>

\* the record of a call op(name, value, content) that ended with err
Reply(op, err, name, value, content) ==
    [op |-> op, err |-> err, name |-> name, value |-> value,
     content |-> content]

\* req = Request(method, url, params, data); when the constructor raises,
\* the owner keeps the request it had
ReqNew(method, url, params, data) ==
    /\ IF Upper(method) \in METHODS
       THEN /\ req' = NewRequest(Upper(method), url, params, data)
            /\ reply' = Reply("Request", "", method, data, None)
       ELSE /\ req' = req
            /\ reply' = Reply("Request", "Exception", method, data, None)
    /\ UNCHANGED sessionVars

\* req.data(data)
ReqData(data) ==
    /\ req' = RequestData(req, data).req
    /\ reply' = Reply("data", RequestData(req, data).err, "", data, None)
    /\ UNCHANGED sessionVars

\* req.attach(name, file, content)
ReqAttach(name, file, content) ==
    /\ req' = RequestAttach(req, name, file, content).req
    /\ reply' = Reply("attach", RequestAttach(req, name, file, content).err,
                      name, file, content)
    /\ UNCHANGED sessionVars

\* req.header(name, value), the setter
ReqHeader(name, value) ==
    /\ req' = RequestSetHeader(req, name, value)
    /\ reply' = Reply("header", "", name, value, None)
    /\ UNCHANGED sessionVars

\* req.params().add(name, value)
ParamsAdd(name, value) ==
    /\ req' = [req EXCEPT !.params = PairsAdd(@, name, value)]
    /\ reply' = Reply("add", "", name, value, None)
    /\ UNCHANGED sessionVars

\* req.params().set(name, value)
ParamsSet(name, value) ==
    /\ req' = [req EXCEPT !.params = PairsSet(@, name, value)]
    /\ reply' = Reply("set", "", name, value, None)
    /\ UNCHANGED sessionVars

\* req.params().clear(name)
ParamsClear(name) ==
    /\ req' = [req EXCEPT !.params = PairsClear(@, name)]
    /\ reply' = Reply("clear", "", name, None, None)
    /\ UNCHANGED sessionVars

\* req.params().merge(parameters)
ParamsMerge(parameters) ==
    /\ req' = [req EXCEPT !.params = PairsMerge(@, parameters)]
    /\ reply' = Reply("merge", "", "", None, None)
    /\ UNCHANGED sessionVars

-----------------------------------------------------------------------------
(* Inputs *)

URLs ==
    { None,
      <<"/">>,
      <<"www.example.com">>,
      <<"/", "path">>,
      <<"http", "s", ":", "/", "/", "other.org", "/", "x">>,
      <<"ppg.h", "tml">> }

ParamsInputs == { <<>>, << <<"q", <<"a b">>>> >> }

DataInputs == { None, <<"payload">> }

\* form.action is absent or a path; the form has two fields
Forms ==
    { [action |-> None,
       fields |-> << <<"q", <<"">>>>, <<"lang", <<"en">>>> >>],
      [action |-> <<"/", "search">>,
       fields |-> << <<"q", <<"">>>>, <<"lang", <<"en">>>> >>] }

ValuesInputs == { << <<"q", <<"test">>>> >> }

\* follow is read only when do is true
Flags == { <<TRUE, TRUE>>, <<FALSE, TRUE>>, <<TRUE, FALSE>> }

\* one step of a session whose owner draws from the inputs in and may
\* create at most cap transactions
Step(in, cap) ==
    \/ \E url \in in.urls, p \in in.params, f \in Flags :
          nCreated < cap /\ Get(url, p, f[1], f[2])
    \/ \E url \in in.urls, p \in in.params, d \in in.datas, f \in Flags :
          nCreated < cap /\ Post(url, p, d, f[1], f[2])
    \/ \E form \in in.forms, values \in ValuesInputs,
          method \in METHODS, do \in BOOLEAN :
          nCreated < cap /\ Submit(form, values, None, method, do)
    \/ \E resp \in in.responses, ok \in BOOLEAN : Exchange(resp, ok)
    \/ nCreated < cap /\ Hop
    \/ \E i \in 1..Len(transactions), resp \in in.responses, ok \in BOOLEAN :
          Do(i, resp, ok)

Redirects ==
    { None,
      <<"moved", ";", "p", "?", "q", "#", "f">>,
      <<"http", "s", ":", "/", "/", "other.org", "/", "x">> }

\* navigation: every URL shape, no parameters, no cookies
Navigation ==
    [urls |-> URLs, params |-> {<<>>}, datas |-> {None}, forms |-> Forms,
     responses |-> [redirect : Redirects, newCookies : {<<>>}]]

\* browsing: query parameters, request bodies, cookies, one redirect target
Browsing ==
    [urls |-> {<<"www.example.com">>, <<"/", "path">>},
     params |-> ParamsInputs, datas |-> DataInputs,
     forms |-> {f \in Forms : f.action = None},
     responses |-> {[redirect |-> None, newCookies |-> <<>>],
                    [redirect |-> <<"/", "moved">>,
                     newCookies |-> << <<"sid", <<"1">>>> >>]}]

\* redirect chains and eviction: one URL, one redirect target
Chains ==
    [urls |-> {<<"www.example.com">>},
     params |-> {<<>>}, datas |-> {None},
     forms |-> {f \in Forms : f.action = None},
     responses |-> [redirect : {None, <<"/", "moved">>},
                    newCookies : {<<>>}]]

HistoryURLs == {<<"www.example.com">>, <<"/", "path">>}

\* the methods a Request is constructed with: the three supported ones, one
\* in lower case, one unsupported
MethodInputs == {GET, POST, HEAD, "get", "PUT"}

AttachNames == {"f1", "f2"}

FileInputs == {None, <<"file.txt">>}

ContentInputs == {None, <<"bytes">>}

\* names that differ by case only, and one other name
PairNames == {"Cookie", "cookie", "sid"}

PairValues == {<<"1">>, <<"2">>}

\* lists handed to Pairs(params) and merge(params): empty, one with the
\* same pair twice, one with two names
MergeInputs ==
    { <<>>,
      << <<"Cookie", <<"1">>>>, <<"Cookie", <<"1">>>> >>,
      << <<"cookie", <<"2">>>>, <<"sid", <<"1">>>> >> }

\* the owner of a Request constructs it, sets its body, attaches files or
\* content and sets headers
NextRequest ==
    \/ \E method \in MethodInputs, p \in ParamsInputs, d \in DataInputs :
          ReqNew(method, <<"/">>, p, d)
    \/ \E d \in DataInputs : ReqData(d)
    \/ \E name \in AttachNames, file \in FileInputs, content \in ContentInputs :
          Len(req.attachments) < MaxAttach /\ ReqAttach(name, file, content)
    \/ \E name \in {"Cookie", "cookie"}, value \in PairValues \cup {None} :
          ReqHeader(name, value)

\* the owner of a Request constructs it with parameters, works on the Pairs
\* that req.params() hands out, and sets headers
NextPairs ==
    \/ \E p \in MergeInputs : ReqNew(GET, <<"/">>, p, None)
    \/ \E name \in PairNames, value \in PairValues :
          Len(req.params) < MaxPairs /\ ParamsAdd(name, value)
    \/ \E name \in PairNames, value \in PairValues :
          Len(req.params) < MaxPairs /\ ParamsSet(name, value)
    \/ \E name \in PairNames : ParamsClear(name)
    \/ \E p \in MergeInputs :
          Len(req.params) < MaxPairs /\ ParamsMerge(p)
    \/ \E name \in {"Cookie", "cookie"}, value \in PairValues :
          ReqHeader(name, value)

-----------------------------------------------------------------------------
(* Specifications *)

Init == InitSession(MAX_TRANSACTIONS)

Next == Step(Navigation, MaxCreated)

\* a default session, every URL shape
Spec == Init /\ [][Next]_vars

NextBrowse == Step(Browsing, MaxBrowse)

\* a default session with parameters, bodies and cookies
SpecBrowse == Init /\ [][NextBrowse]_vars

InitChain == InitSession(SmallMax)

NextChain == Step(Chains, MaxChain)

\* a session with a small history, so that redirect chains meet eviction
SpecChain == InitChain /\ [][NextChain]_vars

NextHistory ==
    \E url \in HistoryURLs :
        nCreated < MaxHistCreated /\ Get(url, <<>>, TRUE, FALSE)

\* a default session that is only asked to get(url, do=False)
SpecHistory == Init /\ [][NextHistory]_vars

\* a Request on its own: construction, data, attach, header
SpecRequest == Init /\ [][NextRequest]_vars

\* the Pairs of a Request's parameters: construction, add, set, clear, merge;
\* the Pairs of its headers: set through Request.header
SpecPairs == Init /\ [][NextPairs]_vars

\* SpecChain where a call in progress goes on: the transport answers every
\* exchange and the redirect loop issues its next get
SpecChainLive ==
    /\ SpecChain
    /\ WF_vars(\E resp \in Chains.responses : Exchange(resp, TRUE))
    /\ WF_vars(nCreated < MaxChain /\ Hop)

-----------------------------------------------------------------------------
(* History eviction *)

\* the creation numbers of the history, oldest first
Ids(txs) == [i \in 1..Len(txs) |-> txs[i].id]

\* C1: once a call has returned, the history holds at most maxTransactions
\* entries; with maxTransactions = 10, thirteen get(url, do=False) calls
\* leave exactly 10 entries.
C1_ReturnedHistoryWithinMax ==
    pc = "idle" =>
        /\ Len(transactions) <= maxTransactions
        /\ (maxTransactions = 10 /\ nCreated = 13 => Len(transactions) = 10)

\* C2: the history is always the last Len(history) transactions created, in
\* creation order; its length never exceeds maxTransactions + 1; a step that
\* appends removes nothing or the oldest entry only.
C2_FifoOneAtATime ==
    /\ [](/\ \A i \in 1..Len(transactions) :
                transactions[i].id = nCreated - Len(transactions) + i
          /\ Len(transactions) <= maxTransactions + 1)
    /\ [][\/ Ids(transactions') = Ids(transactions)
          \/ Ids(transactions') = Append(Ids(transactions), nCreated + 1)
          \/ /\ transactions # <<>>
             /\ Ids(transactions') =
                    Append(Tail(Ids(transactions)), nCreated + 1)]_vars

\* an append has evicted the oldest transaction
C2_Witness ==
    /\ Len(transactions) = maxTransactions + 1
    /\ transactions[1].id > 1

-----------------------------------------------------------------------------
(* URL normalisation and pinning *)

\* a step that is the head of a get or post, a redirect hop included
GetOrPostStep == pc \in {"idle", "hop"} /\ call'.op \in {"get", "post"}

\* the target of a call names neither a scheme nor a host
RelativeTarget(t) ==
    t # None /\ UrlParse(t).protocol = <<>> /\ UrlParse(t).host = <<>>

\* a relative target with the "/" the recomposition puts in front of it
AbsTarget(t) == IF StartsWith(t, "/") THEN t ELSE <<"/">> \o t

\* C3 as stated: on a pinned session every get/post to a target without
\* scheme and host yields the request URL protocol://host + path and leaves
\* host and protocol alone.
C3_RelativeIsHostPlusPath ==
    [][GetOrPostStep /\ host # None /\ protocol # None
          /\ RelativeTarget(call'.target)
       => /\ nCreated' = nCreated + 1
          /\ Last(transactions').request.url =
                protocol \o <<":", "/", "/">> \o host
                \o UrlParse(call'.target).path
          /\ host' = host /\ protocol' = protocol]_vars

\* C3 amended: on a pinned session a get/post to a target without scheme and
\* host leaves host and protocol alone; when the target starts with "ppg.h"
\* it fails with AssertionError and creates nothing; otherwise its request
\* URL is protocol://host, a "/" when the target does not start with one,
\* and the target (path, ;parameters, ?query, #fragment).
C3_RelativeResolves ==
    [][GetOrPostStep /\ host # None /\ protocol # None
          /\ RelativeTarget(call'.target)
       => /\ host' = host /\ protocol' = protocol
          /\ IF StartsWith(call'.target, "ppg.h")
             THEN /\ call'.outcome = "raised"
                  /\ call'.error = "AssertionError"
                  /\ transactions' = transactions
             ELSE /\ nCreated' = nCreated + 1
                  /\ Last(transactions').request.url =
                        protocol \o <<":", "/", "/">> \o host
                        \o AbsTarget(call'.target)]_vars

\* get("www.example.com") then get("/path") requested
\* http://www.example.com/path
C3_Witness ==
    /\ nCreated = 2
    /\ call.op = "get" /\ call.target = <<"/", "path">>
    /\ Render(transactions[1].request.url) = "http://www.example.com/"
    /\ Render(transactions[2].request.url) = "http://www.example.com/path"

\* the URL __processURL parses for a target: "/" for no URL on an empty
\* session, the http:// prefix while no host is pinned
ProcessedURL(t, h) ==
    LET u == IF t = None THEN <<"/">> ELSE t
    IN  IF h = None /\ ~StartsWith(u, "http")
        THEN <<"http", ":", "/", "/">> \o u ELSE u

\* C4: a step that processes a URL pins the host that URL carries, if it
\* carries one, and its scheme, if that is http or https; every other step
\* (and a call that fails before it parses a URL) leaves host and protocol
\* alone.  So host and protocol are those of the most recent such URLs.
C4_LastAbsoluteWins ==
    [][IF /\ pc \in {"idle", "hop"}
          /\ call'.op \in {"get", "post", "submit"}
          /\ call'.error \notin {"SessionException", "AttributeError"}
       THEN LET parsed == UrlParse(ProcessedURL(call'.target, host))
            IN  /\ host' = IF parsed.host # <<>> THEN parsed.host ELSE host
                /\ protocol' = IF parsed.protocol \in {HTTP, HTTPS}
                               THEN parsed.protocol ELSE protocol
       ELSE host' = host /\ protocol' = protocol]_vars

\* get("https://other.org/x") on a session pinned to www.example.com
C4_Witness ==
    /\ Len(transactions) = 2
    /\ Render(transactions[1].request.url) = "http://www.example.com/"
    /\ call.target = <<"http", "s", ":", "/", "/", "other.org", "/", "x">>
    /\ host = <<"other.org">> /\ protocol = HTTPS
    /\ Render(transactions[2].request.url) = "https://other.org/x"

\* C5: a session with a transaction in its history has a host and a
\* protocol pinned.
C5_ActiveIsPinned ==
    transactions # <<>> => host # None /\ protocol # None

\* C6: a get or post without URL on a session with a transaction succeeds
\* and requests the URL of the previous transaction.
C6_NoUrlReusesPrevious ==
    [][pc = "idle" /\ call'.op \in {"get", "post"} /\ call'.target = None
          /\ transactions # <<>>
       => /\ call'.outcome # "raised"
          /\ nCreated' = nCreated + 1
          /\ Last(transactions').request.url =
                TransactionUrl(Last(transactions))]_vars

-----------------------------------------------------------------------------
(* Referer chaining *)

HasHeader(r, name) == \E i \in 1..Len(r.headers) : r.headers[i][1] = name

\* C7: every request built while the history was not empty carries the
\* Referer header of the URL of the transaction that was last then, which is
\* its predecessor in the history; the first request of the session carries
\* no Referer header.
C7_RefererChain ==
    /\ \A i \in 2..Len(transactions) :
          /\ HasHeader(transactions[i].request, "Referer")
          /\ RequestGetHeader(transactions[i].request, "Referer") =
                TransactionUrl(transactions[i - 1])
    /\ \A i \in 1..Len(transactions) :
          transactions[i].id = 1 =>
              ~HasHeader(transactions[i].request, "Referer")

\* a redirect hop whose Referer is the URL, query parameters included, of
\* the get that was redirected
C7_Witness ==
    /\ Len(transactions) = 2
    /\ call.hops = 1
    /\ Render(TransactionUrl(transactions[1])) =
          "http://www.example.com/?q=a+b"
    /\ Render(RequestGetHeader(transactions[2].request, "Referer")) =
          "http://www.example.com/?q=a+b"

-----------------------------------------------------------------------------
(* Redirect following *)

\* a get or post with do=True has returned
ReturnedCall ==
    /\ pc = "idle" /\ call.op \in {"get", "post"}
    /\ call.do /\ call.outcome = "returned"

\* C8: when a get/post with do=True returns after the transport answered k
\* redirects and then none, with follow=True k + 1 transactions were
\* appended, the k last of them GET requests, and the one returned is the
\* last of the history, done, and reports no redirect; with follow=False
\* one transaction was appended and it is the one returned.
C8_ReturnsEndOfChain ==
    ReturnedCall =>
        /\ call.result = Last(transactions).id
        /\ call.result = nCreated
        /\ Last(transactions).done
        /\ IF call.follow
           THEN /\ call.appended = call.redirects + 1
                /\ call.hops = call.redirects
                /\ ~Truthy(curl.redirect)
                /\ \A i \in 1..Len(transactions) :
                      transactions[i].id > nCreated - call.redirects
                          => transactions[i].request.method = GET
           ELSE call.appended = 1 /\ call.hops = 0

\* a post that was redirected twice has returned its third transaction
C8_Witness ==
    /\ ReturnedCall /\ call.op = "post" /\ call.follow
    /\ call.redirects = 2 /\ call.appended = 3 /\ call.result = 3

-----------------------------------------------------------------------------
(* Cookie propagation *)

\* the step executes a transaction: the transport made one more exchange
Executes ==
    \E i \in 1..Len(transactions') :
        /\ transactions'[i].done
        /\ \A j \in 1..Len(transactions) :
               transactions[j].id = transactions'[i].id
                   => ~transactions[j].done

\* pair stands as name=value in a Cookie header line of the request sent
InCookieHeader(pair, wire) ==
    \E h \in 1..Len(wire.headers) :
        /\ wire.headers[h][1] = "Cookie"
        /\ \E i \in 3..Len(wire.headers[h]) :
              SubSeq(wire.headers[h], i, i + 1 + Len(pair[2]))
                  = <<pair[1], "=">> \o pair[2]

\* C10: when a transaction is executed the jar holds every cookie the
\* transport returned for the transaction executed before it, and the
\* request sent carries every cookie of the jar; no step removes a pair
\* from the jar.
C10_CookiesPropagate ==
    [][/\ \A i \in 1..Len(cookies) :
             \E j \in 1..Len(cookies') : cookies'[j] = cookies[i]
       /\ Executes =>
             /\ \A i \in 1..Len(curl.newCookies) :
                   \E j \in 1..Len(cookies) : cookies[j] = curl.newCookies[i]
             /\ \A i \in 1..Len(cookies) :
                   InCookieHeader(cookies[i], curl'.sent[1])]_vars

-----------------------------------------------------------------------------
(* Transaction.do at most once *)

\* the step is a do() that found its transaction done already
DoOnDone ==
    /\ pc = "idle" /\ pc' = "idle"
    /\ call'.op = "do" /\ call'.outcome = "returned" /\ call'.result = 0

\* C11: a transaction that is done stays as it is (request cookies included)
\* in every later step; a do() on a done transaction changes neither the
\* history, the session jar nor the transport's response state; and the
\* transport's response state changes only in a step that executes a
\* transaction that was not done.
C11_DoAtMostOnce ==
    [][/\ \A i \in 1..Len(transactions) : \A j \in 1..Len(transactions') :
             (transactions[i].done /\ transactions'[j].id = transactions[i].id)
                 => transactions'[j] = transactions[i]
       /\ DoOnDone => UNCHANGED <<transactions, cookies, curl, host, protocol>>
       /\ curl' # curl => Executes]_vars

\* do() has been called on transaction 1, which an earlier do() had executed
\* and for which the transport had returned a cookie and a redirect target
C11_Witness ==
    /\ pc = "idle" /\ call.op = "do"
    /\ call.outcome = "returned" /\ call.result = 0
    /\ transactions[1].done
    /\ curl.sent[1].url = TransactionUrl(transactions[1])
    /\ curl.newCookies # <<>> /\ Truthy(curl.redirect)
    /\ cookies = <<>>

-----------------------------------------------------------------------------
(* Transaction result accessors *)

\* what the three result accessors of transaction t return when the
\* transport is in state c
Results(t, c) ==
    <<TransactionData(t, c), TransactionRedirect(t, c),
      TransactionNewCookies(t, c)>>

\* C12: the result accessors of a transaction that is not done return the
\* transport's unset default, and no step changes what the result accessors
\* of a transaction that is done return.
C12_OwnResults ==
    /\ [](\A i \in 1..Len(transactions) :
             ~transactions[i].done =>
                 Results(transactions[i], curl)
                     = Results(transactions[i], CurlUnset))
    /\ [][\A i \in 1..Len(transactions) :
             transactions[i].done =>
                 Results(transactions[i], curl')
                     = Results(transactions[i], curl)]_vars

-----------------------------------------------------------------------------
(* Request: body and attachments *)

\* C13: after a successful attach the getter data() returns None without
\* failing; after a successful data(x) the attachment list is empty; an
\* attach on a request that has a body and a data(x) on a request that has
\* attachments fail and leave body and attachment list as they were.
C13_BodyAttachmentExclusive ==
    /\ []((reply.op = "attach" /\ reply.err = "")
             => RequestDataGet(req) = [err |-> "", value |-> None])
    /\ []((reply.op = "data" /\ reply.err = "")
             => RequestAttachments(req) = <<>>)
    /\ [][(\/ reply'.op = "attach" /\ req.data # None
           \/ reply'.op = "data" /\ req.attachments # <<>>)
          => /\ reply'.err # ""
             /\ req'.data = req.data
             /\ req'.attachments = req.attachments]_vars

\* C14: a Request that has a body or an attachment has method POST.
C14_BodyImpliesPost ==
    (req.data # None \/ RequestAttachments(req) # <<>>) => req.method = POST

-----------------------------------------------------------------------------
(* Request.url *)

\* the base URL of r followed by "?" and its encoded parameters
WithQuery(r) == r.url \o <<"?">> \o AsURL(r.params)

\* C15 as stated: url() appends the parameters exactly when there are some
\* and the method is GET, or POST with neither body nor attachments; for
\* HEAD it returns the base URL.
C15_AppendsForGetOrBarePost ==
    RequestUrl(req) =
        IF /\ req.params # <<>>
           /\ \/ req.method = GET
              \/ /\ req.method = POST
                 /\ req.data = None /\ RequestAttachments(req) = <<>>
        THEN WithQuery(req)
        ELSE req.url

\* C15: url() returns the base URL when there are no parameters; with
\* parameters it returns the base URL of a POST that has a body, and of a
\* request that has attachments, and appends "?" and the encoded parameters
\* for GET and HEAD, with or without body, and for POST without body and
\* attachments.
C15_AppendsUnlessPostBody ==
    /\ req.params = <<>> => RequestUrl(req) = req.url
    /\ (req.params # <<>> /\ req.method \in {GET, HEAD}
           /\ RequestAttachments(req) = <<>>)
          => RequestUrl(req) = WithQuery(req)
    /\ (req.params # <<>> /\ req.method = POST)
          => RequestUrl(req) =
                IF req.data = None /\ RequestAttachments(req) = <<>>
                THEN WithQuery(req) ELSE req.url
    /\ RequestAttachments(req) # <<>> => RequestUrl(req) = req.url

\* a HEAD request with parameters, whose url() carries the query
C15_Witness ==
    /\ req.method = HEAD /\ req.params # <<>>
    /\ Render(RequestUrl(req)) = "/?q=a+b"

-----------------------------------------------------------------------------
(* Transport failure *)

\* C16: the do() of a get/post call either executes the transaction last
\* appended or, when the transport fails, ends the call with the transport's
\* error: the transaction stays the last entry of the history and is not
\* done, the jar is unchanged, and no further transaction is created.
C16_TransportFailure ==
    [][pc = "do" =>
          \/ /\ Last(transactions').done
             /\ call'.outcome # "raised"
          \/ /\ ~Last(transactions').done
             /\ pc' = "idle"
             /\ call'.outcome = "raised" /\ call'.error = "TransportError"
             /\ Len(transactions') = Len(transactions)
             /\ Last(transactions').id = Last(transactions).id
             /\ Last(transactions').id = nCreated
             /\ cookies' = cookies
             /\ nCreated' = nCreated]_vars

\* the transport has failed on the redirect hop of a get whose first
\* exchange had returned a cookie
C16_Witness ==
    /\ pc = "idle" /\ call.op = "get"
    /\ call.outcome = "raised" /\ call.error = "TransportError"
    /\ call.hops = 1 /\ Len(transactions) = 2
    /\ transactions[1].done /\ ~transactions[2].done
    /\ cookies # <<>>

-----------------------------------------------------------------------------
(* Pairs *)

\* the positions of pairs that hold exactly this name
Named(pairs, name) == {i \in 1..Len(pairs) : pairs[i][1] = name}

\* C17: a Pairs never holds the same (name, value) tuple twice; right after
\* set(name, value) exactly one entry has exactly that name, and it holds
\* value; add and merge leave every entry there was where it was.
C17_PairsUnique ==
    /\ [](\A i, j \in 1..Len(req.params) :
             i # j => req.params[i] # req.params[j])
    /\ [](reply.op = "set" =>
             /\ Cardinality(Named(req.params, reply.name)) = 1
             /\ \A i \in Named(req.params, reply.name) :
                   req.params[i][2] = reply.value)
    /\ [][reply'.op \in {"add", "merge"} =>
             /\ Len(req'.params) >= Len(req.params)
             /\ SubSeq(req'.params, 1, Len(req.params)) = req.params]_vars

\* set("cookie", "2") has replaced an entry "cookie" and kept the entry
\* "Cookie" in front of it
C17_Witness ==
    /\ reply.op = "set" /\ reply.name = "cookie" /\ reply.value = <<"2">>
    /\ req.params = << <<"Cookie", <<"1">>>>, <<"sid", <<"1">>>>,
                       <<"cookie", <<"2">>>> >>

\* the names get() is asked for
GetNames == PairNames \cup {" cookie "}

\* C18: right after set(name, v), get(name') returns v for every name' equal
\* to name up to case and surrounding whitespace; right after
\* Request.header(name, v), Request.header(name) returns v.
C18_SetThenGet ==
    /\ reply.op = "set" =>
          \A name \in GetNames :
              LowerStrip(name) = LowerStrip(reply.name)
                  => PairsGet(req.params, name) = reply.value
    /\ reply.op = "header" =>
          RequestGetHeader(req, reply.name) = reply.value

-----------------------------------------------------------------------------
(* Request.attach *)

\* C20: a successful attach(name, file, content) appends one entry to the
\* end of the attachment list: (name, file, FILE_ATTACHMENT) when a file is
\* given, else (name, content, CONTENT_ATTACHMENT).
C20_AttachKeepsSource ==
    [][(reply'.op = "attach" /\ reply'.err = "") =>
          RequestAttachments(req') =
              Append(RequestAttachments(req),
                     IF reply'.value # None
                     THEN <<reply'.name, reply'.value, FILE_ATTACHMENT>>
                     ELSE <<reply'.name, reply'.content,
                            CONTENT_ATTACHMENT>>)]_vars

-----------------------------------------------------------------------------
(* Form submission *)

\* the field sets form.submit(None, values) returns for the forms without
\* action that are submitted
SubmittedFields ==
    {FormSubmit(f, None, v) : f \in {g \in Forms : g.action = None},
                              v \in ValuesInputs}

\* the step is a call of submit on a session that has a transaction
SubmitStep == pc = "idle" /\ call'.op = "submit" /\ transactions # <<>>

\* what the step of a submit does: one request to the URL of the last
\* transaction, POST with the encoded field set as body or GET with the
\* field set as parameters; SessionException and nothing changed for
\* another method
SubmitIssues ==
    IF call'.method \in {GET, POST}
    THEN /\ nCreated' = nCreated + 1
         /\ call'.outcome # "raised"
         /\ Last(transactions').id = nCreated + 1
         /\ Last(transactions').request.method = call'.method
         /\ Last(transactions').request.url = TransactionUrl(Last(transactions))
         /\ IF call'.method = POST
            THEN /\ Last(transactions').request.params = <<>>
                 /\ \E fields \in SubmittedFields :
                       Last(transactions').request.data = AsURL(fields)
            ELSE /\ Last(transactions').request.data = None
                 /\ Last(transactions').request.params \in SubmittedFields
    ELSE /\ call'.outcome = "raised" /\ call'.error = "SessionException"
         /\ UNCHANGED <<transactions, host, protocol, cookies, nCreated>>

\* a submit, made on a session that had a transaction, has returned
SubmitReturned ==
    /\ pc = "idle" /\ call.op = "submit" /\ call.outcome = "returned"
    /\ nCreated > call.appended

\* C19 as stated: submit on a session that has a transaction, with a form
\* without action, issues exactly one new request, to the URL of the last
\* transaction, POST with the encoded field set as body (GET: as
\* parameters); another method raises SessionException and changes nothing.
C19_SubmitIssuesOne ==
    /\ [][SubmitStep => SubmitIssues]_vars
    /\ [](SubmitReturned => call.appended = 1)

\* C19: as C19_SubmitIssuesOne, but the request submit issues is followed
\* by one more for every redirect the transport answers when do is true.
C19_SubmitThenFollows ==
    /\ [][SubmitStep => SubmitIssues]_vars
    /\ [](SubmitReturned =>
             call.appended = (IF call.do THEN call.redirects + 1 ELSE 1))

\* a POST submit to the URL of the transaction before it, which the
\* transport answered with a redirect, has returned
C19_Witness ==
    /\ SubmitReturned /\ call.method = POST
    /\ call.redirects = 1 /\ call.appended = 2 /\ nCreated = 3
    /\ transactions[1].id = 2 /\ transactions[1].request.method = POST
    /\ Render(transactions[1].request.url) = "http://www.example.com/"
    /\ Render(transactions[1].request.data) = "q=test&lang=en"
    /\ Render(curl.sent[1].url) = "http://www.example.com/moved"

====
